---------------------------- MODULE Spec2Model ----------------------------
(***************************************************************************)
(* A model of ccache's manifest.c: the binary codec (read_manifest,        *)
(* write_manifest), the deduplicating append (add_object_entry), the       *)
(* verifier (verify_object) and the two public operations manifest_get     *)
(* and manifest_put, run by several processes on one backing path.         *)
(*                                                                         *)
(* Files are byte sequences.  An in-memory manifest is a record            *)
(*   [files, file_infos, objects]; the C counters n_files, n_file_infos,   *)
(* n_objects and n_file_info_indexes are the lengths of the sequences.     *)
(* Indexes are 0-based, as in the source.                                  *)
(***************************************************************************)
EXTENDS Integers, Sequences, FiniteSets, TLC

-----------------------------------------------------------------------------
(* Program constants *)

\* #define MAGIC 0x63436d46U
MAGIC == 1665363270
\* #define VERSION 0
VERSION == 0
\* uint8_t hash[16]
HASH_LEN == 16
\* char buf_[1024] in READ_STR
STR_BUF == 1024
\* uint16_t i, j: the loop counters of read_manifest, write_manifest, free_manifest
UINT16_MAX == 65535

-----------------------------------------------------------------------------
(* Bounds of the model *)

\* calls of manifest_get and manifest_put started in one behaviour, when one
\* call runs at a time
MaxOps == 3
\* calls of manifest_put among them
MaxPuts == 2
\* calls started in one behaviour when the processes run side by side
MaxOpsConc == 2
\* I/O failures (a failing open, lock, write, rename or flush) in one behaviour
MaxFaults == 1
\* entries of files, of file_infos and of objects in the manifests that are
\* encoded and decoded on their own
MaxCodecLen == 2
\* size of the stdio buffer of a FILE, in bytes (libc's BUFSIZ, scaled down)
BufSize == 40

-----------------------------------------------------------------------------
(* Values *)

Range(s) == {s[k] : k \in 1..Len(s)}

Min(a, b) == IF a < b THEN a ELSE b

\* a 16-byte digest all of whose bytes are d
Digest(d) == [k \in 1..HASH_LEN |-> d]

\* struct file_hash { uint8_t hash[16]; uint32_t size; }
FileHash(d, n) == [hash |-> Digest(d), size |-> n]

EmptyManifest == [files |-> <<>>, file_infos |-> <<>>, objects |-> <<>>]

-----------------------------------------------------------------------------
(* read_manifest: the READ_* macros work on a byte sequence s and a cursor *)
(* pos (the index of the next byte getc returns).  A failed read is        *)
(* "goto error".                                                           *)

RECURSIVE BigEndian(_, _, _)
BigEndian(s, pos, k) ==
    IF k = 0 THEN 0
    ELSE BigEndian(s, pos, k - 1) * 256 + s[pos + k - 1]

\* READ_INT(size, var): var is left holding the bytes read so far when getc
\* returns EOF.
READ_INT(s, pos, size) ==
    LET avail == Min(size, Len(s) - pos + 1)
    IN  IF avail < size
        THEN [ok |-> FALSE, val |-> BigEndian(s, pos, IF avail < 0 THEN 0 ELSE avail), pos |-> pos]
        ELSE [ok |-> TRUE, val |-> BigEndian(s, pos, size), pos |-> pos + size]

\* READ_STR(var): at most sizeof(buf_) bytes are read; the string ends at the
\* first NUL; no NUL among them, or EOF before one, is an error.
READ_STR(s, pos) ==
    LET window == Min(STR_BUF, Len(s) - pos + 1)
        nuls   == {k \in 1..window : s[pos + k - 1] = 0}
    IN  IF nuls = {}
        THEN [ok |-> FALSE, val |-> <<>>, pos |-> pos]
        ELSE LET k == CHOOSE x \in nuls : \A y \in nuls : x <= y
             IN  [ok |-> TRUE, val |-> SubSeq(s, pos, pos + k - 2), pos |-> pos + k]

\* READ_BYTES(n, var)
READ_BYTES(s, pos, n) ==
    IF Len(s) - pos + 1 < n
    THEN [ok |-> FALSE, val |-> <<>>, pos |-> pos]
    ELSE [ok |-> TRUE, val |-> SubSeq(s, pos, pos + n - 1), pos |-> pos + n]

\* for (i = 0; i < mf->n_files; i++) READ_STR(mf->files[i]);
RECURSIVE ReadFiles(_, _, _, _)
ReadFiles(s, pos, n, acc) ==
    IF n = 0 THEN [ok |-> TRUE, val |-> acc, pos |-> pos]
    ELSE LET r == READ_STR(s, pos)
         IN  IF ~r.ok THEN [ok |-> FALSE, val |-> acc, pos |-> pos]
             ELSE ReadFiles(s, r.pos, n - 1, Append(acc, r.val))

\* for (i = 0; i < mf->n_file_infos; i++) { index, hash, size }
RECURSIVE ReadFileInfos(_, _, _, _)
ReadFileInfos(s, pos, n, acc) ==
    IF n = 0 THEN [ok |-> TRUE, val |-> acc, pos |-> pos]
    ELSE LET ri == READ_INT(s, pos, 2)
             rh == READ_BYTES(s, ri.pos, HASH_LEN)
             rs == READ_INT(s, rh.pos, 4)
         IN  IF ~ri.ok \/ ~rh.ok \/ ~rs.ok
             THEN [ok |-> FALSE, val |-> acc, pos |-> pos]
             ELSE ReadFileInfos(s, rs.pos, n - 1,
                     Append(acc, [index |-> ri.val, hash |-> rh.val, size |-> rs.val]))

\* for (j = 0; j < mf->objects[i].n_file_info_indexes; j++) READ_INT(2, ...)
RECURSIVE ReadIndexes(_, _, _, _)
ReadIndexes(s, pos, n, acc) ==
    IF n = 0 THEN [ok |-> TRUE, val |-> acc, pos |-> pos]
    ELSE LET r == READ_INT(s, pos, 2)
         IN  IF ~r.ok THEN [ok |-> FALSE, val |-> acc, pos |-> pos]
             ELSE ReadIndexes(s, r.pos, n - 1, Append(acc, r.val))

\* for (i = 0; i < mf->n_objects; i++) { n_file_info_indexes, indexes, hash, size }
RECURSIVE ReadObjects(_, _, _, _)
ReadObjects(s, pos, n, acc) ==
    IF n = 0 THEN [ok |-> TRUE, val |-> acc, pos |-> pos]
    ELSE LET rn == READ_INT(s, pos, 2)
             rx == IF rn.ok THEN ReadIndexes(s, rn.pos, rn.val, <<>>)
                   ELSE [ok |-> FALSE, val |-> <<>>, pos |-> pos]
             rh == READ_BYTES(s, rx.pos, HASH_LEN)
             rs == READ_INT(s, rh.pos, 4)
         IN  IF ~rn.ok \/ ~rx.ok \/ ~rh.ok \/ ~rs.ok
             THEN [ok |-> FALSE, val |-> acc, pos |-> pos]
             ELSE ReadObjects(s, rs.pos, n - 1,
                     Append(acc, [file_info_indexes |-> rx.val,
                                  hash |-> [hash |-> rh.val, size |-> rs.val]]))

\* no file is taken for a new one: C13 tells it from the code's
new_file_never(s) == FALSE

\* if (st.st_size == 0): new file
new_file(s) == Len(s) = 0

(* read_manifest(f).  The result is                                        *)
(*   res = "ok"    a manifest was decoded (mf),                            *)
(*   res = "null"  NULL is returned (bad magic, bad version, or the error  *)
(*                 label with a manifest free_manifest can free),          *)
(*   res = "segv"  the error label is reached while a count is non-zero    *)
(*                 and its array is still NULL: EOF inside                 *)
(*                 READ_INT(2, mf->n_files) or READ_INT(2, mf->n_objects)  *)
(*                 after a non-zero first byte; free_manifest then reads   *)
(*                 mf->files[0] or mf->objects[0] through a NULL pointer.  *)
read_manifest(s) ==
    LET null == [res |-> "null", mf |-> EmptyManifest]
        segv == [res |-> "segv", mf |-> EmptyManifest]
        magic   == READ_INT(s, 1, 4)
        version == READ_INT(s, magic.pos, 2)
        nf      == READ_INT(s, version.pos, 2)
        files   == ReadFiles(s, nf.pos, nf.val, <<>>)
        ni      == READ_INT(s, files.pos, 2)
        infos   == ReadFileInfos(s, ni.pos, ni.val, <<>>)
        no      == READ_INT(s, infos.pos, 2)
        objs    == ReadObjects(s, no.pos, no.val, <<>>)
    IN  IF new_file(s) THEN [res |-> "ok", mf |-> EmptyManifest]
        ELSE IF ~magic.ok \/ magic.val # MAGIC THEN null
        ELSE IF ~version.ok \/ version.val # VERSION THEN null
        ELSE IF ~nf.ok THEN (IF nf.val > 0 THEN segv ELSE null)
        ELSE IF ~files.ok THEN null
        ELSE IF ~ni.ok THEN null
        ELSE IF ~infos.ok THEN null
        ELSE IF ~no.ok THEN (IF no.val > 0 THEN segv ELSE null)
        ELSE IF ~objs.ok THEN null
        ELSE [res |-> "ok",
              mf  |-> [files |-> files.val, file_infos |-> infos.val,
                       objects |-> objs.val]]

-----------------------------------------------------------------------------
(* write_manifest *)

\* the bytes of var with the low one first: C12 tells it from the code's
WRITE_INT_low_first(size, var) ==
    [k \in 1..size |-> (var \div (256 ^ (k - 1))) % 256]

\* WRITE_INT(size, var): ch_ = var >> (8 * (size - i_ - 1)), one char per byte
WRITE_INT(size, var) ==
    [k \in 1..size |-> (var \div (256 ^ (size - k))) % 256]

\* WRITE_STR(var): fputs(var, f) then putc('\0', f)
WRITE_STR(str) == Append(str, 0)

\* WRITE_BYTES(n, var)
WRITE_BYTES(n, bytes) == SubSeq(bytes, 1, n)

RECURSIVE WriteFiles(_, _)
WriteFiles(files, k) ==
    IF k > Len(files) THEN <<>>
    ELSE WRITE_STR(files[k]) \o WriteFiles(files, k + 1)

RECURSIVE WriteFileInfos(_, _)
WriteFileInfos(infos, k) ==
    IF k > Len(infos) THEN <<>>
    ELSE WRITE_INT(2, infos[k].index) \o WRITE_BYTES(HASH_LEN, infos[k].hash)
         \o WRITE_INT(4, infos[k].size) \o WriteFileInfos(infos, k + 1)

RECURSIVE WriteIndexes(_, _)
WriteIndexes(idx, k) ==
    IF k > Len(idx) THEN <<>>
    ELSE WRITE_INT(2, idx[k]) \o WriteIndexes(idx, k + 1)

RECURSIVE WriteObjects(_, _)
WriteObjects(objs, k) ==
    IF k > Len(objs) THEN <<>>
    ELSE WRITE_INT(2, Len(objs[k].file_info_indexes))
         \o WriteIndexes(objs[k].file_info_indexes, 1)
         \o WRITE_BYTES(HASH_LEN, objs[k].hash.hash)
         \o WRITE_INT(4, objs[k].hash.size)
         \o WriteObjects(objs, k + 1)

\* A for loop "for (i = 0; i < n; i++)" with uint16_t i ends iff n <= 65535:
\* i is compared as a 32-bit value and wraps from 65535 to 0.
LoopEnds(n) == n <= UINT16_MAX

\* write_manifest returns (with 1, when no putc fails) iff all its loops end
WriteReturns(mf) ==
    /\ LoopEnds(Len(mf.files))
    /\ LoopEnds(Len(mf.file_infos))
    /\ LoopEnds(Len(mf.objects))
    /\ \A k \in 1..Len(mf.objects) : LoopEnds(Len(mf.objects[k].file_info_indexes))

WriteHeader == WRITE_INT(4, MAGIC) \o WRITE_INT(2, VERSION)

\* the bytes write_manifest passes to putc when all its loops end
write_manifest(mf) ==
    WriteHeader
    \o WRITE_INT(2, Len(mf.files)) \o WriteFiles(mf.files, 1)
    \o WRITE_INT(2, Len(mf.file_infos)) \o WriteFileInfos(mf.file_infos, 1)
    \o WRITE_INT(2, Len(mf.objects)) \o WriteObjects(mf.objects, 1)

-----------------------------------------------------------------------------
(* free_manifest *)

\* free_manifest(mf) returns iff its two loops end; a loop that does not end
\* frees mf->files[0] (or objects[0].file_info_indexes) a second time after
\* i wraps: undefined behaviour.
free_manifest_returns(mf) ==
    LoopEnds(Len(mf.files)) /\ LoopEnds(Len(mf.objects))

-----------------------------------------------------------------------------
(* The deduplicating append *)

\* create_string_index_map(mf->files, mf->n_files): path --> index.  A later
\* hashtable_insert of an equal key is found first by hashtable_search.
create_string_index_map(strings) ==
    [s \in Range(strings) |->
        CHOOSE i \in 0..(Len(strings) - 1) :
            /\ strings[i + 1] = s
            /\ \A k \in 0..(Len(strings) - 1) : strings[k + 1] = s => k <= i]

\* create_file_info_index_map(mf->file_infos, mf->n_file_infos):
\* struct file_info --> index, keys compared by file_infos_equal
create_file_info_index_map(infos) ==
    [fi \in Range(infos) |->
        CHOOSE i \in 0..(Len(infos) - 1) :
            /\ infos[i + 1] = fi
            /\ \A k \in 0..(Len(infos) - 1) : infos[k + 1] = fi => k <= i]

\* a path appended without a search of mf_files: C7 tells it from the code's
get_include_file_index_append(mf, path, mf_files) ==
    [mf |-> [mf EXCEPT !.files = Append(@, path)], index |-> Len(mf.files)]

\* get_include_file_index(mf, path, mf_files): [mf, index]
get_include_file_index(mf, path, mf_files) ==
    IF path \in DOMAIN mf_files
    THEN [mf |-> mf, index |-> mf_files[path]]
    ELSE [mf |-> [mf EXCEPT !.files = Append(@, path)], index |-> Len(mf.files)]

\* get_file_hash_index(mf, path, file_hash, mf_files, mf_file_infos): [mf, index]
get_file_hash_index(mf, path, file_hash, mf_files, mf_file_infos) ==
    LET r  == get_include_file_index(mf, path, mf_files)
        fi == [index |-> r.index, hash |-> file_hash.hash, size |-> file_hash.size]
    IN  IF fi \in DOMAIN mf_file_infos
        THEN [mf |-> r.mf, index |-> mf_file_infos[fi]]
        ELSE [mf |-> [r.mf EXCEPT !.file_infos = Append(@, fi)],
              index |-> Len(r.mf.file_infos)]

\* the do-while loop of add_file_info_indexes over the iterator of
\* included_files; order is the sequence of keys the iterator yields
RECURSIVE IndexLoop(_, _, _, _, _, _)
IndexLoop(mf, included_files, order, mf_files, mf_file_infos, indexes) ==
    IF Len(indexes) = Len(order) THEN [mf |-> mf, indexes |-> indexes]
    ELSE LET path == order[Len(indexes) + 1]
             r    == get_file_hash_index(mf, path, included_files[path],
                                         mf_files, mf_file_infos)
         IN  IndexLoop(r.mf, included_files, order, mf_files, mf_file_infos,
                       Append(indexes, r.index))

\* add_file_info_indexes(indexes, size, mf, included_files): [mf, indexes].
\* Both maps are built once, from the manifest as it is before the loop.
add_file_info_indexes(mf, included_files, order) ==
    IF Len(order) = 0 THEN [mf |-> mf, indexes |-> <<>>]
    ELSE IndexLoop(mf, included_files, order,
                   create_string_index_map(mf.files),
                   create_file_info_index_map(mf.file_infos), <<>>)

\* an entry that keeps the 16 bytes of object_hash and not its size: C5 tells
\* it from the code's
add_object_entry_hash_only(mf, object_hash, included_files, order) ==
    LET r == add_file_info_indexes(mf, included_files, order)
    IN  [files      |-> r.mf.files,
         file_infos |-> r.mf.file_infos,
         objects    |-> Append(mf.objects,
                               [file_info_indexes |-> r.indexes,
                                hash |-> [hash |-> object_hash.hash,
                                          size |-> 0]])]

\* an entry that is not added when the manifest has an equal one: C14 tells
\* it from the code's
add_object_entry_merging(mf, object_hash, included_files, order) ==
    LET r   == add_file_info_indexes(mf, included_files, order)
        obj == [file_info_indexes |-> r.indexes,
                hash |-> [hash |-> object_hash.hash, size |-> object_hash.size]]
    IN  [files      |-> r.mf.files,
         file_infos |-> r.mf.file_infos,
         objects    |-> IF \E k \in 1..Len(mf.objects) : mf.objects[k] = obj
                        THEN mf.objects
                        ELSE Append(mf.objects, obj)]

\* an entry put before the objects of the manifest: C19 tells it from the
\* code's
add_object_entry_first(mf, object_hash, included_files, order) ==
    LET r == add_file_info_indexes(mf, included_files, order)
    IN  [files      |-> r.mf.files,
         file_infos |-> r.mf.file_infos,
         objects    |-> <<[file_info_indexes |-> r.indexes,
                           hash |-> [hash |-> object_hash.hash,
                                     size |-> object_hash.size]]>> \o mf.objects]

\* add_object_entry(mf, object_hash, included_files)
add_object_entry(mf, object_hash, included_files, order) ==
    LET r == add_file_info_indexes(mf, included_files, order)
    IN  [files      |-> r.mf.files,
         file_infos |-> r.mf.file_infos,
         objects    |-> Append(mf.objects,
                               [file_info_indexes |-> r.indexes,
                                hash |-> [hash |-> object_hash.hash,
                                          size |-> object_hash.size]])]

-----------------------------------------------------------------------------
(* The processes, the file system and the include files *)

\* processes that call manifest_get and manifest_put on the one manifest_path
Procs == {1, 2}

\* the include files: "a" and "b"
PathA == <<97>>
PathB == <<98>>
Paths == {PathA, PathB}

\* no struct file_hash: manifest_get's NULL, and a file hash_file cannot hash
NULL == [hash |-> <<>>, size |-> 0]

\* what the callers record for an include file
FileValues(path) ==
    IF path = PathA THEN {FileHash(1, 10), FileHash(2, 10)}
    ELSE {FileHash(1, 10)}

\* what hash_file finds: the same hash with another size, or no readable file
DiskValues(path) ==
    IF path = PathA THEN {FileHash(1, 10), FileHash(1, 20)}
    ELSE {FileHash(1, 10), NULL}

ObjectHashes == {FileHash(3, 30), FileHash(4, 40)}

\* included_files: every mapping of some of the paths to a value
IncludedFiles ==
    UNION {{f \in [S -> UNION {FileValues(q) : q \in Paths}] :
               \A q \in S : f[q] \in FileValues(q)} : S \in SUBSET Paths}

\* the orders in which a hashtable iterator may yield the keys of f
Orders(f) ==
    LET S == DOMAIN f
    IN  {o \in [1..Cardinality(S) -> S] : \A q \in S : \E k \in DOMAIN o : o[k] = q}

VARIABLES
    dir,     \* the inode manifest_path names, 0 when there is no such file
    data,    \* data[k]: the bytes a read of inode k returns
    whole,   \* whole[k]: every byte written to inode k has reached data[k]
    locks,   \* the fcntl locks held: records [ino, proc, type]
    disk,    \* disk[path]: the hash and size of the include file, or NULL
    proc,    \* proc[p]: the locals of the call process p is running
    ops,     \* the numbers of calls started: [put, get]
    puts,    \* the manifest_put calls that returned 1, in order, each with
             \* the manifest it passed to write_manifest
    prev,    \* the last manifest_get call that returned, when no system call
             \* of its own failed and no manifest_put has returned 1 and no
             \* include file has changed since
    faults   \* the number of I/O failures that may still happen

vars == <<dir, data, whole, locks, disk, proc, ops, puts, prev, faults>>

IdleProc ==
    [pc |-> "idle",
     \* manifest_put
     object_hash |-> NULL, included_files |-> <<>>, order |-> <<>>,
     fd1 |-> 0, fd2 |-> 0, buf |-> <<>>, ret |-> 0,
     \* manifest_get
     fd |-> 0, hashed_files |-> <<>>, i |-> 0, j |-> 0, fh |-> NULL,
     \* both
     mf |-> EmptyManifest,
     \* what the call has met: the bytes at the path when it was made, the
     \* step that failed, whether it read an inode that was not whole, the
     \* paths it passed to hash_file
     pre |-> <<>>, err |-> "", partial |-> FALSE, calls |-> <<>>]

NoPrev == [valid |-> FALSE, fh |-> NULL, failed_put |-> FALSE]

\* the bytes at manifest_path; none when there is no file
Content == IF dir = 0 THEN <<>> ELSE data[dir]

\* no process has made a call yet
Start ==
    /\ locks = {}
    /\ disk = [q \in Paths |-> FileHash(1, 10)]
    /\ proc = [p \in Procs |-> IdleProc]
    /\ ops = [put |-> 0, get |-> 0]
    /\ puts = <<>>
    /\ prev = NoPrev

\* there is no file at manifest_path, or a new (zero-length) one
NoManifest ==
    \/ dir = 0 /\ data = <<>> /\ whole = <<>>
    \/ dir = 1 /\ data = << <<>> >> /\ whole = <<TRUE>>

\* the file an earlier manifest_put(H, {"a": (hash 1, size 10)}) has left
OneObject ==
    write_manifest(add_object_entry(EmptyManifest, FileHash(3, 30),
                                    [q \in {PathA} |-> FileHash(1, 10)], <<PathA>>))

Init ==
    /\ Start
    /\ \/ NoManifest
       \/ dir = 1 /\ data = <<OneObject>> /\ whole = <<TRUE>>
    /\ faults = 0

\* the file two calls of manifest_put have left
TwoObjects ==
    write_manifest(
        add_object_entry(
            add_object_entry(EmptyManifest, FileHash(3, 30),
                             [q \in {PathA} |-> FileHash(1, 10)], <<PathA>>),
            FileHash(4, 40), [q \in Paths |-> FileHash(1, 10)], <<PathA, PathB>>))

\* a file that ends early: every proper prefix of TwoObjects, and the first
\* seven bytes of a manifest of 256 files
Truncated ==
    {SubSeq(TwoObjects, 1, n) : n \in 1..(Len(TwoObjects) - 1)}
    \cup {SubSeq(WRITE_INT(4, MAGIC) \o WRITE_INT(2, VERSION) \o WRITE_INT(2, 256), 1, 7)}

\* a file with another magic number or another version
Foreign ==
    {[TwoObjects EXCEPT ![4] = 0], [TwoObjects EXCEPT ![6] = 1]}

\* a file whose one path has STR_BUF bytes before its NUL
LongPath ==
    WRITE_INT(4, MAGIC) \o WRITE_INT(2, VERSION) \o WRITE_INT(2, 1)
    \o WRITE_STR([k \in 1..STR_BUF |-> 97])
    \o WRITE_INT(2, 0) \o WRITE_INT(2, 0)

\* a file whose object refers to the sixth of its one file_infos
WildIndex ==
    write_manifest([files |-> <<PathA>>,
                    file_infos |-> <<[index |-> 0, hash |-> Digest(1), size |-> 10]>>,
                    objects |-> <<[file_info_indexes |-> <<5>>,
                                   hash |-> FileHash(3, 30)]>>])

\* the file at manifest_path is damaged, or is TwoObjects
InitCorrupt ==
    /\ Start
    /\ dir = 1
    /\ \E s \in Truncated \cup Foreign \cup {LongPath, WildIndex, TwoObjects} :
          data = <<s>>
    /\ whole = <<TRUE>>
    /\ faults = 0

\* a manifest of as many objects as a 2-byte count can hold
FullManifest ==
    [files |-> <<>>, file_infos |-> <<>>,
     objects |-> SubSeq([k \in 1..UINT16_MAX |->
                           [file_info_indexes |-> <<>>, hash |-> FileHash(3, 30)]],
                        1, UINT16_MAX)]

\* manifest_put has locked the file and read_manifest has returned: the
\* manifest is empty, has one object, or is full.  The 1441782 bytes of the
\* full file are left out of data: from here on manifest_put does not read
\* the file again.
InitCap ==
    /\ dir = 1
    /\ whole = <<TRUE>>
    /\ locks = {[ino |-> 1, proc |-> 1, type |-> "w"]}
    /\ disk = [q \in Paths |-> FileHash(1, 10)]
    /\ ops = [put |-> 1, get |-> 0]
    /\ puts = <<>>
    /\ prev = NoPrev
    /\ faults \in 0..MaxFaults
    /\ \E h \in ObjectHashes, f \in IncludedFiles :
          \E o \in Orders(f) :
             \E c \in {[mf |-> EmptyManifest, bytes |-> <<>>],
                        [mf |-> read_manifest(OneObject).mf, bytes |-> OneObject],
                        [mf |-> FullManifest, bytes |-> <<>>]} :
                /\ data = <<c.bytes>>
                /\ proc = [p \in Procs |->
                             IF p = 1
                             THEN [IdleProc EXCEPT !.pc = "put_tmp",
                                                   !.object_hash = h,
                                                   !.included_files = f,
                                                   !.order = o,
                                                   !.fd1 = 1,
                                                   !.pre = c.bytes,
                                                   !.mf = c.mf]
                             ELSE IdleProc]

InitSeq ==
    /\ Start
    /\ NoManifest
    /\ faults = 0

InitFault ==
    /\ Start
    /\ \/ NoManifest
       \/ dir = 1 /\ data = <<OneObject>> /\ whole = <<TRUE>>
    /\ faults = MaxFaults

Idle(p) == proc[p].pc \in {"idle", "crashed"}

\* the kernel closes the descriptors of a process that dies
Crash(p) ==
    /\ proc' = [proc EXCEPT ![p] = [@ EXCEPT !.pc = "crashed"]]
    /\ locks' = {l \in locks : l.proc # p}

MayFail == faults > 0

-----------------------------------------------------------------------------
(* manifest_put, one action per system call it makes *)

\* the bytes of n written with putc that stdio has passed to write(2): the
\* buffer is flushed when it is full and one more byte arrives
Flushed(n) == IF n = 0 THEN 0 ELSE ((n - 1) \div BufSize) * BufSize

\* the first bytes write_manifest writes when one of its loops does not end:
\* up to the count the first such loop is bounded by
write_manifest_prefix(mf) ==
    IF ~LoopEnds(Len(mf.files))
    THEN WriteHeader \o WRITE_INT(2, Len(mf.files))
    ELSE IF ~LoopEnds(Len(mf.file_infos))
    THEN WriteHeader \o WRITE_INT(2, Len(mf.files)) \o WriteFiles(mf.files, 1)
         \o WRITE_INT(2, Len(mf.file_infos))
    ELSE WriteHeader \o WRITE_INT(2, Len(mf.files)) \o WriteFiles(mf.files, 1)
         \o WRITE_INT(2, Len(mf.file_infos)) \o WriteFileInfos(mf.file_infos, 1)
         \o WRITE_INT(2, Len(mf.objects))

\* a rename whatever write_manifest returned: C9 tells it from the code's
after_write_always_rename(written) == "put_rename"

\* if (write_manifest(f2, mf)) rename ... else goto out
after_write(written) == IF written THEN "put_rename" ELSE "put_close2"

\* a process calls manifest_put(manifest_path, object_hash, included_files)
put_call(p, object_hash, included_files, order) ==
    /\ proc[p].pc = "idle"
    /\ ops' = [ops EXCEPT !.put = @ + 1]
    /\ proc' = [proc EXCEPT ![p] =
                  [IdleProc EXCEPT !.pc = "put_open",
                                   !.object_hash = object_hash,
                                   !.included_files = included_files,
                                   !.order = order,
                                   !.pre = Content]]
    /\ UNCHANGED <<dir, data, whole, locks, disk, puts, prev, faults>>

\* fd1 = safe_open(manifest_path): the file is created when there is none
put_open(p) ==
    /\ proc[p].pc = "put_open"
    /\ \/ /\ IF dir = 0
             THEN /\ data' = Append(data, <<>>)
                  /\ whole' = Append(whole, TRUE)
                  /\ dir' = Len(data) + 1
             ELSE UNCHANGED <<dir, data, whole>>
          /\ proc' = [proc EXCEPT ![p] = [@ EXCEPT !.pc = "put_lock", !.fd1 = dir']]
          /\ UNCHANGED faults
       \/ /\ MayFail
          /\ faults' = faults - 1
          /\ proc' = [proc EXCEPT ![p] = [@ EXCEPT !.pc = "put_return", !.err = "open"]]
          /\ UNCHANGED <<dir, data, whole>>
    /\ UNCHANGED <<locks, disk, ops, puts, prev>>

\* a manifest_put that goes on without the lock: C17 tells it from the code's
put_lock_not_taken(p) ==
    /\ proc[p].pc = "put_lock"
    /\ proc' = [proc EXCEPT ![p] = [@ EXCEPT !.pc = "put_read"]]
    /\ UNCHANGED <<dir, data, whole, locks, disk, ops, puts, prev, faults>>

\* write_lock_fd(fd1): blocks while another process holds a lock on the inode
put_lock(p) ==
    /\ proc[p].pc = "put_lock"
    /\ \/ /\ \A l \in locks : l.ino = proc[p].fd1 => l.proc = p
          /\ locks' = locks \cup {[ino |-> proc[p].fd1, proc |-> p, type |-> "w"]}
          /\ proc' = [proc EXCEPT ![p] = [@ EXCEPT !.pc = "put_read"]]
          /\ UNCHANGED faults
       \/ /\ MayFail
          /\ faults' = faults - 1
          /\ proc' = [proc EXCEPT ![p] = [@ EXCEPT !.pc = "put_return", !.err = "lock"]]
          /\ UNCHANGED locks
    /\ UNCHANGED <<dir, data, whole, disk, ops, puts, prev>>

\* f1 = fdopen(fd1, "rb"); mf = read_manifest(f1)
put_read(p) ==
    LET r == read_manifest(data[proc[p].fd1])
    IN  /\ proc[p].pc = "put_read"
        /\ CASE r.res = "ok" ->
                  /\ proc' = [proc EXCEPT ![p] =
                                [@ EXCEPT !.pc = "put_tmp", !.mf = r.mf,
                                          !.partial = ~whole[proc[p].fd1]]]
                  /\ UNCHANGED locks
             [] r.res = "null" ->
                  /\ proc' = [proc EXCEPT ![p] =
                                [@ EXCEPT !.pc = "put_close1", !.err = "read",
                                          !.partial = ~whole[proc[p].fd1]]]
                  /\ UNCHANGED locks
             [] r.res = "segv" -> Crash(p)
        /\ UNCHANGED <<dir, data, whole, disk, ops, puts, prev, faults>>

\* fd2 = safe_open(tmp_file); f2 = fdopen(fd2, "wb"): a new file of its own
put_tmp(p) ==
    /\ proc[p].pc = "put_tmp"
    /\ \/ /\ data' = Append(data, <<>>)
          /\ whole' = Append(whole, TRUE)
          /\ proc' = [proc EXCEPT ![p] = [@ EXCEPT !.pc = "put_write", !.fd2 = Len(data) + 1]]
          /\ UNCHANGED faults
       \/ /\ MayFail
          /\ faults' = faults - 1
          /\ proc' = [proc EXCEPT ![p] = [@ EXCEPT !.pc = "put_close1", !.err = "tmp"]]
          /\ UNCHANGED <<data, whole>>
    /\ UNCHANGED <<dir, locks, disk, ops, puts, prev>>

\* add_object_entry(mf, object_hash, included_files); write_manifest(f2, mf)
put_write(p) ==
    LET m   == add_object_entry(proc[p].mf, proc[p].object_hash,
                                proc[p].included_files, proc[p].order)
        fd2 == proc[p].fd2
    IN  /\ proc[p].pc = "put_write"
        /\ IF WriteReturns(m)
           THEN LET bytes == write_manifest(m)
                    n     == Flushed(Len(bytes))
                IN  \/ \* every putc succeeds: write_manifest returns 1
                       /\ data' = [data EXCEPT ![fd2] = SubSeq(bytes, 1, n)]
                       /\ whole' = [whole EXCEPT ![fd2] = (n = Len(bytes))]
                       /\ proc' = [proc EXCEPT ![p] =
                                     [@ EXCEPT !.pc = after_write(TRUE), !.mf = m,
                                               !.buf = SubSeq(bytes, n + 1, Len(bytes))]]
                       /\ UNCHANGED <<locks, faults>>
                    \/ \* the k-th flush fails: putc returns EOF, write_manifest 0
                       /\ MayFail
                       /\ \E k \in 1..(n \div BufSize) :
                            /\ data' = [data EXCEPT ![fd2] = SubSeq(bytes, 1, (k - 1) * BufSize)]
                            /\ proc' = [proc EXCEPT ![p] =
                                          [@ EXCEPT !.pc = after_write(FALSE), !.mf = m,
                                                    !.err = "write",
                                                    !.buf = SubSeq(bytes, (k - 1) * BufSize + 1,
                                                                   k * BufSize)]]
                       /\ whole' = [whole EXCEPT ![fd2] = FALSE]
                       /\ faults' = faults - 1
                       /\ UNCHANGED locks
           ELSE \/ \* a loop of write_manifest never ends
                   /\ proc' = [proc EXCEPT ![p] =
                                 [@ EXCEPT !.pc = "put_spin", !.mf = m,
                                           !.buf = write_manifest_prefix(m)]]
                   /\ whole' = [whole EXCEPT ![fd2] = FALSE]
                   /\ UNCHANGED <<data, locks, faults>>
                \/ \* until a flush fails; free_manifest(mf) then frees twice
                   /\ MayFail
                   /\ faults' = faults - 1
                   /\ whole' = [whole EXCEPT ![fd2] = FALSE]
                   /\ UNCHANGED data
                   /\ IF free_manifest_returns(m)
                      THEN /\ proc' = [proc EXCEPT ![p] =
                                         [@ EXCEPT !.pc = "put_close2", !.mf = m,
                                                   !.err = "write"]]
                           /\ UNCHANGED locks
                      ELSE \/ Crash(p)
                           \/ /\ proc' = [proc EXCEPT ![p] =
                                            [@ EXCEPT !.pc = "put_spin", !.mf = m,
                                                      !.err = "write"]]
                              /\ UNCHANGED locks
        /\ UNCHANGED <<dir, disk, ops, puts, prev>>

\* rename(tmp_file, manifest_path)
put_rename(p) ==
    /\ proc[p].pc = "put_rename"
    /\ \/ /\ dir' = proc[p].fd2
          /\ proc' = [proc EXCEPT ![p] = [@ EXCEPT !.pc = "put_close2", !.ret = 1]]
          /\ UNCHANGED faults
       \/ /\ MayFail
          /\ faults' = faults - 1
          /\ proc' = [proc EXCEPT ![p] = [@ EXCEPT !.pc = "put_close2", !.err = "rename"]]
          /\ UNCHANGED dir
    /\ UNCHANGED <<data, whole, locks, disk, ops, puts, prev>>

\* out: free_manifest(mf); fclose(f2): the buffer is flushed, and the result
\* of fclose is not looked at
put_close2(p) ==
    LET fd2 == proc[p].fd2
    IN  /\ proc[p].pc = "put_close2"
        /\ \/ /\ data' = [data EXCEPT ![fd2] = @ \o proc[p].buf]
              /\ whole' = [whole EXCEPT ![fd2] = TRUE]
              /\ proc' = [proc EXCEPT ![p] = [@ EXCEPT !.pc = "put_close1", !.buf = <<>>]]
              /\ UNCHANGED faults
           \/ /\ MayFail
              /\ proc[p].buf # <<>>
              /\ faults' = faults - 1
              /\ proc' = [proc EXCEPT ![p] =
                            [@ EXCEPT !.pc = "put_close1", !.buf = <<>>,
                                      !.err = IF @ = "" THEN "flush" ELSE @]]
              /\ whole' = [whole EXCEPT ![fd2] = FALSE]
              /\ UNCHANGED data
        /\ UNCHANGED <<dir, locks, disk, ops, puts, prev>>

\* fclose(f1): the lock on the inode of fd1 is released
put_close1(p) ==
    /\ proc[p].pc = "put_close1"
    /\ locks' = {l \in locks : l.proc # p}
    /\ proc' = [proc EXCEPT ![p] = [@ EXCEPT !.pc = "put_return"]]
    /\ UNCHANGED <<dir, data, whole, disk, ops, puts, prev, faults>>

\* return ret
put_return(p) ==
    /\ proc[p].pc = "put_return"
    /\ puts' = IF proc[p].ret = 1
               THEN Append(puts, [object_hash |-> proc[p].object_hash,
                                  included_files |-> proc[p].included_files,
                                  err |-> proc[p].err,
                                  partial |-> proc[p].partial,
                                  mf |-> proc[p].mf])
               ELSE puts
    /\ prev' = IF proc[p].ret = 1 THEN NoPrev
               ELSE IF proc[p].err = "write" THEN [prev EXCEPT !.failed_put = TRUE]
               ELSE prev
    /\ proc' = [proc EXCEPT ![p] = IdleProc]
    /\ UNCHANGED <<dir, data, whole, locks, disk, ops, faults>>

-----------------------------------------------------------------------------
(* manifest_get, one action per system call and per hash_file call *)

\* hash_file(&hash, path) and hash_result_as_bytes: NULL when it returns 0
hash_file(path) == IF path \in DOMAIN disk THEN disk[path] ELSE NULL

\* hashtable_insert(hashed_files, path, actual)
hashtable_insert(h, key, value) ==
    [k \in (DOMAIN h) \cup {key} |-> IF k = key THEN value ELSE h[k]]

\* a comparison of the hashes alone: C6 tells it from the code's
file_info_differs_hash_only(fi, actual) ==
    fi.hash # actual.hash

\* memcmp(fi->hash, actual->hash, 16) != 0 || fi->size != actual->size
file_info_differs(fi, actual) ==
    fi.hash # actual.hash \/ fi.size # actual.size

(* One turn of the loop of verify_object(mf, obj, hashed_files), for the   *)
(* index at position j (from 0) of obj.  The result is                     *)
(*   res = "next"   the recorded hash and size are the actual ones,        *)
(*   res = "fail"   verify_object returns 0,                               *)
(*   res = "wild"   the index is not one of file_infos, or its file index  *)
(*                  not one of files: the read is out of bounds;           *)
(* hashed is the path passed to hash_file (<<>> when it is not called).    *)
verify_object(mf, obj, j, hashed_files) ==
    LET idx == obj.file_info_indexes[j + 1]
        fi  == mf.file_infos[idx + 1]
        path == mf.files[fi.index + 1]
        cached == path \in DOMAIN hashed_files
        actual == IF cached THEN hashed_files[path] ELSE hash_file(path)
    IN  IF idx >= Len(mf.file_infos) \/ fi.index >= Len(mf.files)
        THEN [res |-> "wild", hashed_files |-> hashed_files, hashed |-> <<>>]
        ELSE IF ~cached /\ actual = NULL
        THEN [res |-> "fail", hashed_files |-> hashed_files, hashed |-> <<path>>]
        ELSE [res |-> IF file_info_differs(fi, actual) THEN "fail" ELSE "next",
              hashed_files |-> IF cached THEN hashed_files
                               ELSE hashtable_insert(hashed_files, path, actual),
              hashed |-> IF cached THEN <<>> ELSE <<path>>]

\* a loop that starts below the newest object: C4 tells it from the code's
newest_object_skipped(mf) ==
    IF Len(mf.objects) = 0 THEN 0 ELSE Len(mf.objects) - 1

\* i = mf->n_objects: the object the loop of manifest_get looks at first
newest_object(mf) == Len(mf.objects)

\* a loop that ends at the first object that does not verify: C18 tells it
\* from the code's
next_object_none(i) == 0

\* i--: the object the loop of manifest_get looks at next
next_object(i) == i - 1

\* a process calls manifest_get(manifest_path)
get_call(p) ==
    /\ proc[p].pc = "idle"
    /\ ops' = [ops EXCEPT !.get = @ + 1]
    /\ proc' = [proc EXCEPT ![p] = [IdleProc EXCEPT !.pc = "get_open"]]
    /\ UNCHANGED <<dir, data, whole, locks, disk, puts, prev, faults>>

\* fd = open(manifest_path, O_RDONLY)
get_open(p) ==
    /\ proc[p].pc = "get_open"
    /\ \/ /\ dir = 0
          /\ proc' = [proc EXCEPT ![p] = [@ EXCEPT !.pc = "get_return", !.err = "open"]]
          /\ UNCHANGED faults
       \/ /\ dir # 0
          /\ proc' = [proc EXCEPT ![p] = [@ EXCEPT !.pc = "get_lock", !.fd = dir]]
          /\ UNCHANGED faults
       \/ /\ dir # 0
          /\ MayFail
          /\ faults' = faults - 1
          /\ proc' = [proc EXCEPT ![p] = [@ EXCEPT !.pc = "get_return", !.err = "fault"]]
    /\ UNCHANGED <<dir, data, whole, locks, disk, ops, puts, prev>>

\* read_lock_fd(fd): blocks while another process holds a write lock
get_lock(p) ==
    /\ proc[p].pc = "get_lock"
    /\ \/ /\ \A l \in locks : (l.ino = proc[p].fd /\ l.type = "w") => l.proc = p
          /\ locks' = locks \cup {[ino |-> proc[p].fd, proc |-> p, type |-> "r"]}
          /\ proc' = [proc EXCEPT ![p] = [@ EXCEPT !.pc = "get_read"]]
          /\ UNCHANGED faults
       \/ /\ MayFail
          /\ faults' = faults - 1
          /\ proc' = [proc EXCEPT ![p] = [@ EXCEPT !.pc = "get_return", !.err = "fault"]]
          /\ UNCHANGED locks
    /\ UNCHANGED <<dir, data, whole, disk, ops, puts, prev>>

\* f = fdopen(fd, "rb"); mf = read_manifest(f); hashed_files = create_hashtable
get_read(p) ==
    LET r == read_manifest(data[proc[p].fd])
    IN  /\ proc[p].pc = "get_read"
        /\ CASE r.res = "ok" ->
                  /\ proc' = [proc EXCEPT ![p] =
                                [@ EXCEPT !.pc = "get_verify", !.mf = r.mf,
                                          !.i = newest_object(r.mf), !.j = 0,
                                          !.partial = ~whole[proc[p].fd]]]
                  /\ UNCHANGED locks
             [] r.res = "null" ->
                  /\ proc' = [proc EXCEPT ![p] =
                                [@ EXCEPT !.pc = "get_close", !.err = "read",
                                          !.partial = ~whole[proc[p].fd]]]
                  /\ UNCHANGED locks
             [] r.res = "segv" -> Crash(p)
        /\ UNCHANGED <<dir, data, whole, disk, ops, puts, prev, faults>>

\* for (i = mf->n_objects; i > 0; i--) if (verify_object(mf, &mf->objects[i - 1]))
\* one turn of the loop of verify_object, or its return 1
get_verify(p) ==
    LET mf  == proc[p].mf
        i   == proc[p].i
        j   == proc[p].j
        obj == mf.objects[i]
        v   == verify_object(mf, obj, j, proc[p].hashed_files)
    IN  /\ proc[p].pc = "get_verify"
        /\ IF i = 0
           THEN /\ proc' = [proc EXCEPT ![p] = [@ EXCEPT !.pc = "get_close"]]
                /\ UNCHANGED locks
           ELSE IF j = Len(obj.file_info_indexes)
           THEN /\ proc' = [proc EXCEPT ![p] = [@ EXCEPT !.pc = "get_close", !.fh = obj.hash]]
                /\ UNCHANGED locks
           ELSE CASE v.res = "next" ->
                       /\ proc' = [proc EXCEPT ![p] =
                                     [@ EXCEPT !.j = j + 1,
                                               !.hashed_files = v.hashed_files,
                                               !.calls = @ \o v.hashed]]
                       /\ UNCHANGED locks
                  [] v.res = "fail" ->
                       /\ proc' = [proc EXCEPT ![p] =
                                     [@ EXCEPT !.i = next_object(i), !.j = 0,
                                               !.hashed_files = v.hashed_files,
                                               !.calls = @ \o v.hashed]]
                       /\ UNCHANGED locks
                  [] v.res = "wild" ->
                       \* undefined: the process dies, or goes on with what it read
                       \/ Crash(p)
                       \/ /\ proc' = [proc EXCEPT ![p] = [@ EXCEPT !.j = j + 1, !.err = "wild"]]
                          /\ UNCHANGED locks
                       \/ /\ proc' = [proc EXCEPT ![p] =
                                        [@ EXCEPT !.i = next_object(i), !.j = 0, !.err = "wild"]]
                          /\ UNCHANGED locks
        /\ UNCHANGED <<dir, data, whole, disk, ops, puts, prev, faults>>

\* out: hashtable_destroy(hashed_files); fclose(f): the lock is released
get_close(p) ==
    /\ proc[p].pc = "get_close"
    /\ locks' = {l \in locks : l.proc # p}
    /\ proc' = [proc EXCEPT ![p] = [@ EXCEPT !.pc = "get_return"]]
    /\ UNCHANGED <<dir, data, whole, disk, ops, puts, prev, faults>>

\* return fh
get_return(p) ==
    /\ proc[p].pc = "get_return"
    /\ prev' = [valid |-> proc[p].err # "fault", fh |-> proc[p].fh,
                failed_put |-> FALSE]
    /\ proc' = [proc EXCEPT ![p] = IdleProc]
    /\ UNCHANGED <<dir, data, whole, locks, disk, ops, puts, faults>>

-----------------------------------------------------------------------------
(* The include files change *)

Touch(path, value) ==
    /\ \A p \in Procs : Idle(p)
    /\ value # disk[path]
    /\ disk' = [disk EXCEPT ![path] = value]
    /\ prev' = NoPrev
    /\ UNCHANGED <<dir, data, whole, locks, proc, ops, puts, faults>>

-----------------------------------------------------------------------------
(* Specifications *)

Step(p) ==
    \/ put_open(p) \/ put_lock(p) \/ put_read(p) \/ put_tmp(p) \/ put_write(p)
    \/ put_rename(p) \/ put_close2(p) \/ put_close1(p) \/ put_return(p)
    \/ get_open(p) \/ get_lock(p) \/ get_read(p) \/ get_verify(p)
    \/ get_close(p) \/ get_return(p)

\* what the processes pass when they run side by side
IncludedFilesConc ==
    {f \in IncludedFiles : \A q \in DOMAIN f : q = PathA /\ f[q] = FileHash(1, 10)}

\* the processes run side by side
Next ==
    \E p \in Procs :
        \/ /\ ops.put + ops.get < MaxOpsConc
           /\ \/ \E h \in ObjectHashes, f \in IncludedFilesConc :
                    \E o \in Orders(f) : put_call(p, h, f, o)
              \/ get_call(p)
        \/ Step(p)

Spec == Init /\ [][Next]_vars

\* one call at a time, by one process; the include files change between calls
NextSeq ==
    \/ /\ \A p \in Procs : Idle(p)
       /\ ops.put + ops.get < MaxOps
       /\ \/ /\ ops.put < MaxPuts
             /\ \E h \in ObjectHashes, f \in IncludedFiles :
                   \E o \in Orders(f) : put_call(1, h, f, o)
          \/ get_call(1)
    \/ \E q \in Paths : \E v \in DiskValues(q) : Touch(q, v)
    \/ Step(1)

\* no system call fails
SpecSeq == InitSeq /\ [][NextSeq]_vars

\* system calls may fail
SpecFault == InitFault /\ [][NextSeq]_vars

\* the file at manifest_path is damaged
SpecCorrupt == InitCorrupt /\ [][NextSeq]_vars

\* manifest_put from read_manifest on
NextCap ==
    \/ put_tmp(1) \/ put_write(1) \/ put_rename(1)
    \/ put_close2(1) \/ put_close1(1) \/ put_return(1)

\* the manifest is at its capacity
SpecCap == InitCap /\ [][NextCap]_vars

-----------------------------------------------------------------------------
(* write_manifest and read_manifest on their own *)

\* the greatest size the integers of the model checker hold: 31 bits of the
\* 32 of uint32_t size
SIZE_TOP == (2 ^ 30 - 1) * 2 + 1

SeqsUpTo(S, n) == UNION {[1..k -> S] : k \in 0..n}

\* a path of one byte, and the longest path READ_STR takes
CodecPaths == {PathA, [k \in 1..(STR_BUF - 1) |-> 97]}

\* file_infos with the least and the greatest index and size of their fields
CodecFileInfos ==
    {[index |-> 0, hash |-> Digest(255), size |-> 0],
     [index |-> UINT16_MAX, hash |-> Digest(255), size |-> SIZE_TOP]}

\* objects with no index and with two, with the least and the greatest values
CodecObjects ==
    [file_info_indexes : {<<>>, <<UINT16_MAX, 0>>},
     hash : {FileHash(3, 30), FileHash(0, SIZE_TOP)}]

CodecManifests ==
    [files : SeqsUpTo(CodecPaths, MaxCodecLen),
     file_infos : SeqsUpTo(CodecFileInfos, MaxCodecLen),
     objects : SeqsUpTo(CodecObjects, MaxCodecLen)]

\* process 1 holds a manifest and an empty file to write it to
InitCodec ==
    /\ dir = 1
    /\ data = << <<>> >>
    /\ whole = <<TRUE>>
    /\ locks = {}
    /\ disk = [q \in Paths |-> FileHash(1, 10)]
    /\ ops = [put |-> 0, get |-> 0]
    /\ puts = <<>>
    /\ prev = NoPrev
    /\ faults = 0
    /\ \E m \in CodecManifests :
          proc = [p \in Procs |->
                    IF p = 1 THEN [IdleProc EXCEPT !.pc = "encode", !.mf = m, !.fd2 = 1]
                    ELSE [IdleProc EXCEPT !.pc = "decode", !.fd = 1]]

\* write_manifest(f2, mf) and fclose(f2), by process 1
codec_write ==
    /\ proc[1].pc = "encode"
    /\ WriteReturns(proc[1].mf)
    /\ data' = [data EXCEPT ![proc[1].fd2] = write_manifest(proc[1].mf)]
    /\ proc' = [proc EXCEPT ![1] = [@ EXCEPT !.pc = "encoded", !.ret = 1]]
    /\ UNCHANGED <<dir, whole, locks, disk, ops, puts, prev, faults>>

\* mf = read_manifest(f), by process 2
codec_read ==
    LET r == read_manifest(data[proc[2].fd])
    IN  /\ proc[1].pc = "encoded"
        /\ proc[2].pc = "decode"
        /\ IF r.res = "segv"
           THEN Crash(2)
           ELSE /\ proc' = [proc EXCEPT ![2] =
                              [@ EXCEPT !.pc = "decoded", !.mf = r.mf,
                                        !.err = IF r.res = "ok" THEN "" ELSE "read"]]
                /\ UNCHANGED locks
        /\ UNCHANGED <<dir, data, whole, disk, ops, puts, prev, faults>>

NextCodec == codec_write \/ codec_read

SpecCodec == InitCodec /\ [][NextCodec]_vars

-----------------------------------------------------------------------------
(* Include files with long names *)

\* a path of as many bytes as the buffer of READ_STR has
LongName == [k \in 1..STR_BUF |-> 97]

\* included_files of "a" and of the file with the long name
IncludedFilesLong ==
    UNION {[S -> {FileHash(1, 10)}] : S \in SUBSET {PathA, LongName}}

\* one call at a time, by one process
NextLong ==
    \/ /\ \A p \in Procs : Idle(p)
       /\ ops.put + ops.get < MaxOps
       /\ \/ /\ ops.put < MaxPuts
             /\ \E h \in ObjectHashes, f \in IncludedFilesLong :
                   \E o \in Orders(f) : put_call(1, h, f, o)
          \/ get_call(1)
    \/ Step(1)

SpecLong == InitSeq /\ [][NextLong]_vars

-----------------------------------------------------------------------------
(* Concurrent calls *)

\* the bytes at manifest_path before the first call
InitialContent == IF data = <<>> THEN <<>> ELSE data[1]

\* the number of objects of a manifest with object hash h
CountObjects(mf, h) ==
    Cardinality({k \in 1..Len(mf.objects) : mf.objects[k].hash = h})

\* the number of manifest_put calls that returned 1 and were passed h
CountPuts(h) ==
    Cardinality({k \in 1..Len(puts) : puts[k].object_hash = h})

Quiescent == \A p \in Procs : proc[p].pc = "idle"

\* C1: when every manifest_put has returned, the manifest at the path holds
\* an object for every call that returned 1, besides the objects that were
\* there before the first call: no append is lost.  (Stated for the calls
\* that decoded a completely written file; C2 is about the others.)
C1_NoLostAppend ==
    (Quiescent /\ \A k \in 1..Len(puts) : ~puts[k].partial) =>
        LET now    == read_manifest(Content)
            before == read_manifest(InitialContent)
        IN  /\ now.res = "ok"
            /\ \A h \in ObjectHashes :
                  CountObjects(now.mf, h) >= CountObjects(before.mf, h) + CountPuts(h)

\* C2: a manifest_get never reads an inode some of whose bytes are still in
\* the stdio buffer of the manifest_put that wrote it: what it decodes is a
\* complete manifest.
C2_NoPartialRead ==
    \A p \in Procs :
        proc[p].pc \in {"get_verify", "get_close", "get_return"} => ~proc[p].partial

\* the next step of p is a call of hash_file
CallsHashFile(p) ==
    /\ proc[p].pc = "get_verify"
    /\ proc[p].i > 0
    /\ LET mf  == proc[p].mf
           obj == mf.objects[proc[p].i]
       IN  /\ proc[p].j < Len(obj.file_info_indexes)
           /\ LET fi == mf.file_infos[obj.file_info_indexes[proc[p].j + 1] + 1]
              IN  mf.files[fi.index + 1] \notin DOMAIN proc[p].hashed_files

\* C3: manifest_get holds no lock when it calls hash_file.
C3_NoLockWhileHashing ==
    \A p \in Procs : CallsHashFile(p) => \A l \in locks : l.proc # p

-----------------------------------------------------------------------------
(* One call at a time *)

Max(S) == CHOOSE x \in S : \A y \in S : y <= x

\* the paths obj refers to, through its file_info_indexes
ObjectPaths(mf, obj) ==
    {mf.files[mf.file_infos[obj.file_info_indexes[k] + 1].index + 1] :
        k \in 1..Len(obj.file_info_indexes)}

\* every include file obj refers to has, now, the hash and the size recorded
Matches(mf, obj) ==
    \A k \in 1..Len(obj.file_info_indexes) :
        LET fi     == mf.file_infos[obj.file_info_indexes[k] + 1]
            actual == hash_file(mf.files[fi.index + 1])
        IN  actual # NULL /\ actual.hash = fi.hash /\ actual.size = fi.size

\* the objects of mf that match, by their position (1 is the oldest)
Matching(mf) == {k \in 1..Len(mf.objects) : Matches(mf, mf.objects[k])}

\* C4: when objects of the manifest match the include files, manifest_get
\* returns the hash of the matching object that was appended last, and of no
\* older one.
C4_NewestFirst ==
    \A p \in Procs :
        (proc[p].pc = "get_return" /\ Matching(proc[p].mf) # {}) =>
            /\ proc[p].i = Max(Matching(proc[p].mf))
            /\ proc[p].fh = proc[p].mf.objects[proc[p].i].hash

\* two objects with different hashes match and the newer one is returned
C4_Witness ==
    \E p \in Procs :
        /\ proc[p].pc = "get_return"
        /\ \E a, b \in Matching(proc[p].mf) :
              /\ a < b
              /\ proc[p].mf.objects[a].hash # proc[p].mf.objects[b].hash
              /\ proc[p].fh = proc[p].mf.objects[b].hash

\* C5: after one manifest_put(H, F) on a path with no file or an empty one,
\* and nothing else appended, a manifest_get made while every file of F has
\* the hash and size F records returns H.
C5_LookupAfterAppend ==
    \A p \in Procs :
        (/\ proc[p].pc = "get_return"
         /\ ops.put = 1
         /\ Len(puts) = 1
         /\ \A q \in DOMAIN puts[1].included_files :
               hash_file(q) = puts[1].included_files[q])
        => proc[p].fh = puts[1].object_hash

\* the lookup after an append of two include files returns its hash
C5_Witness ==
    \E p \in Procs :
        /\ proc[p].pc = "get_return"
        /\ ops.put = 1
        /\ Len(puts) = 1
        /\ DOMAIN puts[1].included_files = Paths
        /\ \A q \in Paths : hash_file(q) = puts[1].included_files[q]
        /\ proc[p].fh = puts[1].object_hash

\* C6: manifest_get returns the hash of an object only when every include
\* file the object refers to was hashed in this call and has the recorded
\* hash and size; when no object matches it returns NULL.
C6_NeverStale ==
    \A p \in Procs :
        proc[p].pc = "get_return" =>
            LET mf == proc[p].mf
            IN  /\ proc[p].fh # NULL =>
                     /\ proc[p].i \in 1..Len(mf.objects)
                     /\ proc[p].fh = mf.objects[proc[p].i].hash
                     /\ Matches(mf, mf.objects[proc[p].i])
                     /\ ObjectPaths(mf, mf.objects[proc[p].i]) \subseteq Range(proc[p].calls)
                /\ Matching(mf) = {} => proc[p].fh = NULL

\* NULL is returned for a manifest whose object records the hash an include
\* file has, with another size
C6_Witness ==
    \E p \in Procs :
        /\ proc[p].pc = "get_return"
        /\ proc[p].fh = NULL
        /\ \E k \in 1..Len(proc[p].mf.file_infos) :
              LET fi     == proc[p].mf.file_infos[k]
                  actual == hash_file(proc[p].mf.files[fi.index + 1])
              IN  actual.hash = fi.hash /\ actual.size # fi.size

NoDuplicates(seq) ==
    \A a, b \in 1..Len(seq) : seq[a] = seq[b] => a = b

\* C7: the manifest the calls of manifest_put leave at the path has no path
\* twice in files and no (index, hash, size) twice in file_infos.
C7_Dedup ==
    Quiescent =>
        LET r == read_manifest(Content)
        IN  /\ r.res = "ok"
            /\ NoDuplicates(r.mf.files)
            /\ NoDuplicates(r.mf.file_infos)

\* two calls were passed the same two include files: they are stored once
C7_Witness ==
    /\ Quiescent
    /\ Len(puts) = 2
    /\ puts[1].included_files = puts[2].included_files
    /\ DOMAIN puts[1].included_files = Paths
    /\ LET r == read_manifest(Content)
       IN  /\ Len(r.mf.objects) = 2
           /\ Len(r.mf.files) = 2
           /\ Len(r.mf.file_infos) = 2

-----------------------------------------------------------------------------
(* System calls fail *)

-----------------------------------------------------------------------------
(* A manifest at its capacity *)

\* every count of mf can be written in 2 bytes
WithinCapacity(mf) ==
    /\ Len(mf.files) <= UINT16_MAX
    /\ Len(mf.file_infos) <= UINT16_MAX
    /\ Len(mf.objects) <= UINT16_MAX
    /\ \A k \in 1..Len(mf.objects) :
          Len(mf.objects[k].file_info_indexes) <= UINT16_MAX

\* C8: a manifest_put whose new object takes a count of the manifest past
\* 65535 is found out before anything is written: it returns 0, and does not
\* stay in write_manifest or die.
C8_CapacityChecked ==
    \A p \in Procs :
        ~WithinCapacity(proc[p].mf) =>
            /\ proc[p].pc \in {"put_close2", "put_close1", "put_return"}
            /\ proc[p].ret = 0
            /\ proc[p].buf = <<>>

-----------------------------------------------------------------------------
(* A damaged file *)

\* s is not empty and read_manifest does not decode it
Undecodable(s) == Len(s) > 0 /\ read_manifest(s).res # "ok"

\* C10: a manifest_get of a file that is not empty and does not decode
\* returns NULL and has called hash_file for no path: it does not die.
C10_CorruptIsMiss ==
    \A p \in Procs :
        (proc[p].fd # 0 /\ proc[p].pc # "get_lock" /\ proc[p].pc # "get_read"
           /\ Undecodable(data[proc[p].fd])) =>
            /\ proc[p].pc \in {"get_close", "get_return"}
            /\ proc[p].fh = NULL
            /\ proc[p].calls = <<>>

\* C11: a manifest_put on a file that is not empty and does not decode
\* returns 0, renames nothing and leaves the bytes at the path as they were:
\* it does not die.
C11_CorruptAppendFails ==
    \A p \in Procs :
        (proc[p].fd1 # 0 /\ proc[p].pc # "put_lock" /\ proc[p].pc # "put_read"
           /\ Undecodable(data[proc[p].fd1])) =>
            /\ proc[p].pc \in {"put_close1", "put_return"}
            /\ proc[p].ret = 0
            /\ dir = proc[p].fd1
            /\ Content = proc[p].pre

-----------------------------------------------------------------------------
(* Encoding and decoding *)

\* C12: read_manifest of the bytes write_manifest wrote for a manifest whose
\* counts, indexes and sizes fit their fields and whose paths have at most
\* 1023 bytes returns that manifest: the same files, file_infos and objects
\* in the same order.
C12_RoundTrip ==
    proc[2].pc = "decoded" =>
        /\ proc[2].err = ""
        /\ proc[2].mf = proc[1].mf

\* a manifest with a path of 1023 bytes, the greatest index and the greatest
\* size has been written and read back
C12_Witness ==
    /\ proc[2].pc = "decoded"
    /\ proc[2].mf = proc[1].mf
    /\ \E k \in 1..Len(proc[2].mf.files) : Len(proc[2].mf.files[k]) = STR_BUF - 1
    /\ \E k \in 1..Len(proc[2].mf.file_infos) :
          /\ proc[2].mf.file_infos[k].index = UINT16_MAX
          /\ proc[2].mf.file_infos[k].size = SIZE_TOP
    /\ Len(proc[2].mf.objects) = MaxCodecLen

-----------------------------------------------------------------------------
(* A new file *)

\* the (path, hash, size) triples of the file_infos of mf
Triples(mf) ==
    {[path |-> mf.files[mf.file_infos[k].index + 1],
      hash |-> mf.file_infos[k].hash,
      size |-> mf.file_infos[k].size] : k \in 1..Len(mf.file_infos)}

\* the (path, hash, size) triples of included_files
IncludedTriples(f) ==
    {[path |-> q, hash |-> f[q].hash, size |-> f[q].size] : q \in DOMAIN f}

\* C13: read_manifest of a zero-length file returns the empty manifest, with
\* no error; manifest_get with no file or a zero-length one at the path
\* returns NULL; the first manifest_put on such a path leaves a manifest of
\* one object, whose files and file_infos are those of included_files.
C13_NewFile ==
    /\ \A p \in Procs :
          (ops.put = 0 /\ proc[p].pc \in {"get_verify", "get_close", "get_return"}) =>
              /\ proc[p].err \in {"", "open"}
              /\ proc[p].mf = EmptyManifest
              /\ proc[p].fh = NULL
              /\ proc[p].calls = <<>>
    /\ (Quiescent /\ ops.put = 1 /\ Len(puts) = 1) =>
          LET r == read_manifest(Content)
              f == puts[1].included_files
          IN  /\ r.res = "ok"
              /\ Len(r.mf.objects) = 1
              /\ r.mf.objects[1].hash = puts[1].object_hash
              /\ Len(r.mf.files) = Cardinality(DOMAIN f)
              /\ Range(r.mf.files) = DOMAIN f
              /\ Len(r.mf.file_infos) = Cardinality(DOMAIN f)
              /\ Triples(r.mf) = IncludedTriples(f)
              /\ Range(r.mf.objects[1].file_info_indexes)
                   = {k - 1 : k \in 1..Len(r.mf.file_infos)}

\* a lookup with no file or a zero-length one at the path has returned, and
\* the first append, of two include files, has been made after it
C13_Witness ==
    /\ Quiescent
    /\ ops.put = 1
    /\ ops.get >= 1
    /\ Len(puts) = 1
    /\ DOMAIN puts[1].included_files = Paths
    /\ Len(data) = 2
    /\ data[1] = <<>>
    /\ prev = NoPrev
    /\ Len(read_manifest(Content).mf.objects) = 1

-----------------------------------------------------------------------------
(* What a manifest_put adds *)

\* the (path, hash, size) triples obj refers to
ObjectTriples(mf, obj) ==
    {[path |-> mf.files[mf.file_infos[obj.file_info_indexes[k] + 1].index + 1],
      hash |-> mf.file_infos[obj.file_info_indexes[k] + 1].hash,
      size |-> mf.file_infos[obj.file_info_indexes[k] + 1].size] :
        k \in 1..Len(obj.file_info_indexes)}

\* mf has an object with the hash h and the include files f
HasObject(mf, h, f) ==
    \E k \in 1..Len(mf.objects) :
        /\ mf.objects[k].hash = h
        /\ ObjectTriples(mf, mf.objects[k]) = IncludedTriples(f)

\* C14: a manifest_put that returns 1 leaves one object more than there was,
\* also when the manifest had an object with the same hash and the same
\* include files; then files and file_infos are as they were.
C14_NeverMerged ==
    \A p \in Procs :
        (proc[p].pc = "put_return" /\ proc[p].ret = 1) =>
            LET before == read_manifest(proc[p].pre)
                after  == read_manifest(Content)
            IN  /\ before.res = "ok"
                /\ after.res = "ok"
                /\ Len(after.mf.objects) = Len(before.mf.objects) + 1
                /\ HasObject(before.mf, proc[p].object_hash, proc[p].included_files) =>
                      /\ after.mf.files = before.mf.files
                      /\ after.mf.file_infos = before.mf.file_infos

\* the second manifest_put of the same hash and the same two include files
\* has left two objects
C14_Witness ==
    \E p \in Procs :
        /\ proc[p].pc = "put_return"
        /\ proc[p].ret = 1
        /\ DOMAIN proc[p].included_files = Paths
        /\ HasObject(read_manifest(proc[p].pre).mf, proc[p].object_hash,
                     proc[p].included_files)
        /\ Len(read_manifest(Content).mf.objects) = 2
        /\ Len(read_manifest(Content).mf.file_infos) = 2

-----------------------------------------------------------------------------
(* The calls of hash_file *)

\* C15: one manifest_get passes no path to hash_file twice, whether hash_file
\* succeeds for the path or not.
C15_HashedOnce ==
    \A p \in Procs : NoDuplicates(proc[p].calls)

-----------------------------------------------------------------------------
(* Indexes *)

\* every index of mf is one of the sequence it refers to
IndexesInBounds(mf) ==
    /\ \A k \in 1..Len(mf.file_infos) : mf.file_infos[k].index < Len(mf.files)
    /\ \A k \in 1..Len(mf.objects) :
          \A n \in 1..Len(mf.objects[k].file_info_indexes) :
              mf.objects[k].file_info_indexes[n] < Len(mf.file_infos)

\* C16: in every manifest read_manifest returns and every manifest after
\* add_object_entry each index is within its sequence, and verify_object
\* reads no file_info and no path out of bounds.
C16_IndexesInBounds ==
    \A p \in Procs :
        /\ IndexesInBounds(proc[p].mf)
        /\ proc[p].err # "wild"

-----------------------------------------------------------------------------
(* The lock of manifest_put *)

\* p holds the write lock on the inode of fd1, and no other process a lock
\* on it
HoldsWriteLock(p) ==
    /\ [ino |-> proc[p].fd1, proc |-> p, type |-> "w"] \in locks
    /\ \A l \in locks : l.ino = proc[p].fd1 => l.proc = p

\* C17: manifest_put holds the write lock on the inode of fd1 from before
\* read_manifest through add_object_entry, write_manifest and rename, and when
\* it returns 1 until f2 has been closed.
C17_LockHeld ==
    \A p \in Procs :
        /\ proc[p].pc \in {"put_read", "put_tmp", "put_write", "put_rename",
                           "put_close2", "put_close1"} => HoldsWriteLock(p)
        /\ (proc[p].pc = "put_close1" /\ proc[p].ret = 1) =>
              /\ proc[p].buf = <<>>
              /\ whole[proc[p].fd2]
        /\ (proc[p].pc = "put_return" /\ proc[p].fd1 # 0) =>
              \A l \in locks : l.proc # p

\* a manifest_put has renamed and closed f2 and still holds the lock that
\* another manifest_put waits for
C17_Witness ==
    \E p, q \in Procs :
        /\ p # q
        /\ proc[p].pc = "put_close1"
        /\ proc[p].ret = 1
        /\ HoldsWriteLock(p)
        /\ proc[q].pc = "put_lock"
        /\ proc[q].fd1 = proc[p].fd1

-----------------------------------------------------------------------------
(* A file that cannot be hashed *)

\* hash_file fails for an include file obj refers to
HashFails(mf, obj) ==
    \E q \in ObjectPaths(mf, obj) : hash_file(q) = NULL

\* C18: when hash_file fails for a file of every object newer than a
\* matching one, manifest_get goes on to the older objects and returns the
\* hash of the matching one.
C18_HashFailureLocal ==
    \A p \in Procs :
        proc[p].pc = "get_return" =>
            LET mf == proc[p].mf
            IN  \A k \in Matching(mf) :
                   (/\ k < Len(mf.objects)
                    /\ \A n \in (k + 1)..Len(mf.objects) : HashFails(mf, mf.objects[n]))
                   => /\ proc[p].i = k
                      /\ proc[p].fh = mf.objects[k].hash

\* hash_file has failed for the newest object and the hash of the older one
\* is returned
C18_Witness ==
    \E p \in Procs :
        /\ proc[p].pc = "get_return"
        /\ Len(proc[p].mf.objects) = 2
        /\ HashFails(proc[p].mf, proc[p].mf.objects[2])
        /\ 1 \in Matching(proc[p].mf)
        /\ proc[p].mf.objects[1].hash # proc[p].mf.objects[2].hash
        /\ proc[p].fh = proc[p].mf.objects[1].hash

-----------------------------------------------------------------------------
(* What a manifest_put keeps *)

IsPrefix(a, b) == Len(a) <= Len(b) /\ SubSeq(b, 1, Len(a)) = a

\* C19: after a manifest_put that returned 1, the files, file_infos and
\* objects that were at the path when it was called are the first of those
\* that are there now, unchanged and in the same order, and one object
\* follows the old ones.
C19_AppendOnly ==
    \A p \in Procs :
        (proc[p].pc = "put_return" /\ proc[p].ret = 1) =>
            LET before == read_manifest(proc[p].pre)
                after  == read_manifest(Content)
            IN  /\ before.res = "ok"
                /\ after.res = "ok"
                /\ IsPrefix(before.mf.files, after.mf.files)
                /\ IsPrefix(before.mf.file_infos, after.mf.file_infos)
                /\ IsPrefix(before.mf.objects, after.mf.objects)
                /\ Len(after.mf.objects) = Len(before.mf.objects) + 1
                /\ after.mf.objects[Len(after.mf.objects)].hash = proc[p].object_hash

\* a manifest_put has added a file, a file_info and an object to a manifest
\* that had some
C19_Witness ==
    \E p \in Procs :
        /\ proc[p].pc = "put_return"
        /\ proc[p].ret = 1
        /\ LET before == read_manifest(proc[p].pre).mf
               after  == read_manifest(Content).mf
           IN  /\ Len(before.files) >= 1
               /\ Len(before.objects) >= 1
               /\ Len(after.files) > Len(before.files)
               /\ Len(after.file_infos) > Len(before.file_infos)
               /\ Len(after.objects) > Len(before.objects)

-----------------------------------------------------------------------------
(* The file a manifest_put leaves *)

\* C20: when every manifest_put so far has returned 1, read_manifest of the
\* bytes at the path succeeds and returns the manifest the last one passed to
\* write_manifest, whatever paths included_files has.
C20_DecodableAfterAppend ==
    (Quiescent /\ Len(puts) >= 1 /\ ops.put = Len(puts)) =>
        LET r == read_manifest(Content)
        IN  /\ r.res = "ok"
            /\ r.mf = puts[Len(puts)].mf

=============================================================================
